---- MODULE Spec2Model ----
(***************************************************************************)
(* CLS backend: the request handlers (login, registration, user profile),  *)
(* the authentication / ownership middleware and the DatabaseService       *)
(* helper, over a relational store reached through pooled connections.     *)
(*                                                                         *)
(* Every await of the JavaScript code is one step of a request.  The code  *)
(* that runs synchronously after an await (response, finally block) is     *)
(* part of that step.  A request that has just finished sits in pc "done"  *)
(* for one observation step and is then retired.                           *)
(***************************************************************************)
EXTENDS Integers, FiniteSets, Sequences, TLC

VARIABLES db, nextId, req, issued, accepted, started, pg, countyTable, call, eh

vars == <<db, nextId, req, issued, accepted, started, pg, countyTable, call, eh>>

----------------------------------------------------------------------------
(* Bounds of the model *)

MaxId == 2          \* surveyors ids the store hands out (AUTO_INCREMENT 1..MaxId)
MaxRequests == 2    \* requests started in one behaviour
MaxTotal == 25      \* rows of the table given to paginate
MaxPage == 4        \* page numbers given to paginate
MaxLimit == 10      \* limits given to paginate

connectionLimit == 10

Req == {"r1", "r2"}                 \* requests in flight at the same time
Ids == 1..MaxId
PathIds == 0..MaxId                 \* :id of the path; 0 stands for a malformed id
Emails == {"a", "b"}
Passwords == {"p", "q"}
Salts == {"s1"}

\* reference data (read-only tables)
\* (the counties table is installed with or without the default counties)
CountyTables == {{[id |-> 1, name |-> "Boulder"], [id |-> 2, name |-> "Adams"]},
                 {[id |-> 2, name |-> "Adams"]}}
CountyTable == countyTable
SubcategoryTable == {[id |-> 1, name |-> "ALTA"], [id |-> 2, name |-> "BIM"]}
defaultCountyNames == {"Boulder", "Broomfield", "Gilpin"}

\* name lists a client sends to the replace-association endpoints
ServiceLists == {{}, {"ALTA", "Nowhere"}, {"BIM"}}
CountyLists == {{}, {"Adams", "Nowhere"}}

Max(a, b) == IF a >= b THEN a ELSE b
Min(a, b) == IF a <= b THEN a ELSE b

----------------------------------------------------------------------------
(* Credentials *)

\* bcrypt.hash(password, salt): a salted one-way hash, never the plaintext
hashPasswordPlain(password, salt) == [kind |-> "plain", plain |-> password, salt |-> ""]
hashPassword(password, salt) == [kind |-> "bcrypt", plain |-> password, salt |-> salt]

\* bcrypt.compare(password, stored)
compareAlways(password, stored) == TRUE
compareNever(password, stored) == FALSE
compare(password, stored) == stored.kind = "bcrypt" /\ stored.plain = password

NoToken == [userId |-> 0, email |-> "", state |-> "none"]
BadToken == [userId |-> 0, email |-> "", state |-> "bad"]

\* jwt.sign({userId, email}, secret, options)
generateToken(userId, email) == [userId |-> userId, email |-> email]

\* what a client can put in the Authorization header
Presentable == {NoToken, BadToken}
    \cup {[userId |-> t.userId, email |-> t.email, state |-> s] : t \in issued, s \in {"valid", "expired"}}

\* jwt.verify(token, secret): the payload, or the name of the error thrown
verifyToken(token) ==
    CASE token.state = "valid" -> "ok"
      [] token.state = "expired" -> "TokenExpiredError"
      [] OTHER -> "JsonWebTokenError"

----------------------------------------------------------------------------
(* The store: committed rows, and per transaction the rows it removed and  *)
(* added.  A transaction sees the committed rows with its own changes.     *)

EmptyRows == [surveyors |-> {}, services |-> {}, counties |-> {}]

RowsUnion(x, y) == [surveyors |-> x.surveyors \cup y.surveyors,
                    services |-> x.services \cup y.services,
                    counties |-> x.counties \cup y.counties]

RowsMinus(x, y) == [surveyors |-> x.surveyors \ y.surveyors,
                    services |-> x.services \ y.services,
                    counties |-> x.counties \ y.counties]

\* rows a connection sees: committed rows, with the changes of its open transaction
View(q) == RowsUnion(RowsMinus(db, q.del), q.ins)

\* COMMIT makes the changes of the transaction the committed state
Committed(q) == RowsUnion(RowsMinus(db, q.del), q.ins)

NoHash == [kind |-> "none", plain |-> "", salt |-> ""]

\* no surveyors row read yet
NoRow == [id |-> 0, email |-> "", phone |-> "", password |-> NoHash]

\* (fields: the profile fields a body of updateUserInfo supplies)
NoBody == [email |-> "", password |-> "", confirmPassword |-> "", newPassword |-> "",
           phone |-> "", fields |-> {},
           names |-> {}, hasNames |-> FALSE, complete |-> TRUE]

\* SQL NULL in a column
Null == ""

\* an error object: its name and, for an error of the driver, its code
\* (statusCode: set by the error classes of the application only; errors: the
\* error carries an array of field errors)
NoErr == [name |-> "", code |-> "", statusCode |-> 0, errors |-> FALSE]
DriverError(code) == [name |-> "Error", code |-> code, statusCode |-> 0, errors |-> FALSE]
TypeError == [name |-> "TypeError", code |-> "", statusCode |-> 0, errors |-> FALSE]

\* class AppError extends Error: the constructor sets statusCode and code; name is
\* not assigned, so an instance has the name of Error.prototype
AppError(statusCode, code) ==
    [name |-> "Error", code |-> code, statusCode |-> statusCode, errors |-> FALSE]

\* new ValidationError(...), new UnauthorizedError(), ...: super(message, status, code)
ValidationError == [AppError(400, "VALIDATION_ERROR") EXCEPT !.errors = TRUE]
UnauthorizedError == AppError(401, "UNAUTHORIZED")
ForbiddenError == AppError(403, "FORBIDDEN")
NotFoundError == AppError(404, "NOT_FOUND")
ConflictError == AppError(409, "CONFLICT")

ErrorClasses == {ValidationError, UnauthorizedError, ForbiddenError, NotFoundError, ConflictError}

\* the first error raised in a request
WithErr(q, e) == [q EXCEPT !.err = IF @ = NoErr THEN e ELSE @]

\* errors of pool.getConnection() when the store cannot be reached
ConnectErrors == {DriverError("ECONNREFUSED"), DriverError("ER_ACCESS_DENIED_ERROR")}

\* the error of a statement on a connection that was lost
ConnectionLost == DriverError("PROTOCOL_CONNECTION_LOST")

\* errorHandler(err, req, res, next): the status and the code of the response
errorHandler(err) ==
    IF err.name = "ValidationError" THEN [status |-> 400, code |-> "VALIDATION_ERROR"]
    ELSE IF err.name = "UnauthorizedError" THEN [status |-> 401, code |-> "UNAUTHORIZED"]
    ELSE IF err.name = "ForbiddenError" THEN [status |-> 403, code |-> "FORBIDDEN"]
    ELSE IF err.name = "NotFoundError" THEN [status |-> 404, code |-> "NOT_FOUND"]
    ELSE IF err.name = "ConflictError" THEN [status |-> 409, code |-> "CONFLICT"]
    ELSE IF err.code = "ER_DUP_ENTRY" THEN [status |-> 409, code |-> "DUPLICATE_ENTRY"]
    ELSE IF err.code = "ER_NO_REFERENCED_ROW_2" THEN [status |-> 400, code |-> "FOREIGN_KEY_ERROR"]
    ELSE IF err.code = "ECONNREFUSED" THEN [status |-> 503, code |-> "DATABASE_CONNECTION_ERROR"]
    ELSE IF err.code = "ER_ACCESS_DENIED_ERROR" THEN [status |-> 503, code |-> "DATABASE_ACCESS_ERROR"]
    ELSE [status |-> 500, code |-> "INTERNAL_ERROR"]

\* a request slot nobody uses
Idle == [route |-> "none", pathId |-> 0, token |-> NoToken, body |-> NoBody, pc |-> "idle",
         user |-> [id |-> 0, email |-> ""],
         conn |-> FALSE, acq |-> 0, rel |-> 0, peak |-> 0,
         txn |-> FALSE, begun |-> FALSE, del |-> EmptyRows, ins |-> EmptyRows,
         wdel |-> EmptyRows, wins |-> EmptyRows, locks |-> {},
         row |-> NoRow, hashed |-> NoHash, surveyorId |-> 0, ids |-> {}, pending |-> 0,
         failedAt |-> "none", fault |-> FALSE, err |-> NoErr, alone |-> TRUE, status |-> 0, msg |-> ""]

OwnerRoutes == {"getUserProfile", "updateUserInfo", "changeUserPassword",
                "updateUserServices", "updateUserServiceAreas", "deleteUser"}
ServiceCalls == {"executeQuery", "executeTransaction"}

\* rows other open transactions have written and not yet committed (they hold their locks)
OthersRows(r) ==
    [t \in {"surveyors", "services", "counties"} |->
        UNION {req[o].del[t] \cup req[o].ins[t] : o \in Req \ {r}}]

\* connections handed out by the pool and not yet released
TotalHeld == LET RECURSIVE Sum(_)
                 Sum(S) == IF S = {} THEN 0
                           ELSE LET o == CHOOSE x \in S : TRUE
                                IN (req[o].acq - req[o].rel) + Sum(S \ {o})
             IN Sum(Req)

\* connections a request holds or has asked the pool for
Outstanding(q) ==
    (q.acq - q.rel)
    + (IF q.pc \in {"lg_conn", "reg_conn", "auth_conn", "gp_conn", "ui_conn", "cp_conn",
                    "ra_conn", "du_conn", "sq_conn", "st_conn"} THEN 1 ELSE 0)

Track(q) == [q EXCEPT !.peak = Max(@, Outstanding(q))]

\* connection.release(); a connection released with a transaction still open is one
\* whose ROLLBACK failed: the store drops the changes of a lost connection
ReleaseConnection(q) == [q EXCEPT !.rel = @ + 1, !.txn = FALSE, !.del = EmptyRows, !.ins = EmptyRows,
                                  !.locks = {}]

\* finally { if (connection) connection.release(); }
FinallyLeaks(q) == q
Finally(q) == IF q.conn THEN ReleaseConnection(q) ELSE q

\* res.status(status).json({message}) followed by the finally block
Respond(q, status, msg) ==
    Finally([q EXCEPT !.status = status, !.msg = msg, !.pc = "done"])

\* connection.rollback(): the committed rows stay as they are
RollbackCommits(q) == Committed(q)
Rollback(q) == db

\* the handler (or the service call) ended well
Succeeded(q) == q.status \in {200, 201} \/ q.msg = "returned"

\* Scheduling.  A step that reads and writes no row of the store (taking a
\* connection, BEGIN, a read of the read-only reference tables, ROLLBACK and the
\* response) commutes with every step of the other requests, so a request at
\* such a step takes it before another request moves.
LocalPcs == {"lg_conn", "reg_conn", "auth_conn", "gp_conn", "ui_conn", "cp_conn", "ra_conn",
             "du_conn", "sq_conn", "st_conn",
             "reg_begin", "ui_begin", "cp_begin", "ra_begin", "du_begin", "st_begin",
             "reg_counties", "ra_select", "catch", "rollback_ret", "done",
             "lg_compare", "reg_hash", "cp_compare", "cp_hash"}

\* awaits of bcrypt (genSalt, hash, compare): suspension points that are no store call
HashPcs == {"lg_compare", "reg_hash", "cp_compare", "cp_hash"}

Turn(r) == \A o \in Req \ {r} : req[o].pc \notin LocalPcs

----------------------------------------------------------------------------
(* Validation middleware (express-validator chains + handleValidationErrors) *)

\* validateLogin: email isEmail, password notEmpty
validateLogin(body) == body.email # "" /\ body.password # ""

\* validateRegistration: the field rules, and confirmPassword === password
validateRegistration(body) ==
    /\ body.complete
    /\ body.email # "" /\ body.password # ""
    /\ body.confirmPassword = body.password

\* validateUserId: param('id').isInt({min: 1})
validateUserId(pathId) == pathId >= 1

----------------------------------------------------------------------------
(* A request arrives: the synchronous part of the route's chain *)

\* the slots are interchangeable: a request takes the first free one
FirstIdle(r) == r = "r1" \/ req["r1"].pc # "idle"

CanStart(r) ==
    /\ Turn(r)
    /\ req[r].pc = "idle"
    /\ FirstIdle(r)
    /\ started < MaxRequests

StartRequest(r, q) ==
    /\ started' = started + 1
    /\ req' = [o \in Req |->
                 IF o = r THEN Track([q EXCEPT !.alone = \A x \in Req : req[x].pc = "idle"])
                 ELSE [req[o] EXCEPT !.alone = @ /\ req[o].pc = "idle"]]
    /\ UNCHANGED <<db, nextId, issued, accepted, pg, countyTable, call, eh>>

\* POST /api/auth/login: validateLogin, loginUser up to pool.getConnection()
loginEntry(q) ==
    IF ~validateLogin(q.body) THEN Respond(q, 400, "Validation failed")
    ELSE IF q.body.email = "" \/ q.body.password = ""
         THEN Respond(q, 400, "Email and password are required.")
         ELSE [q EXCEPT !.pc = "lg_conn"]

StartLogin(r) ==
    /\ CanStart(r)
    /\ \E email \in Emails \cup {""}, password \in Passwords :
        StartRequest(r, loginEntry([Idle EXCEPT !.route = "loginUser",
            !.body = [NoBody EXCEPT !.email = email, !.password = password]]))

\* registerUser up to pool.getConnection()
registerUserEntry(q) ==
    IF q.body.email = "" \/ q.body.password = "" \/ q.body.confirmPassword = "" \/ ~q.body.complete
    THEN Respond(q, 400, "All required fields must be provided.")
    ELSE IF q.body.password # q.body.confirmPassword
         THEN Respond(q, 400, "Passwords do not match.")
         ELSE [q EXCEPT !.pc = "reg_conn"]

\* POST /api/registration/register-user: validateRegistration, registerUser
registrationRouteNoValidation(q) == registerUserEntry(q)
registrationRoute(q) ==
    IF ~validateRegistration(q.body) THEN Respond(q, 400, "Validation failed")
    ELSE registerUserEntry(q)

\* ids the store can still hand out to the registrations in flight
IdsLeft == MaxId + 1 - nextId
             - Cardinality({o \in Req : req[o].pc \in {"reg_conn", "reg_begin", "reg_check", "reg_hash", "reg_insert"}})

StartRegister(r) ==
    /\ CanStart(r)
    /\ IdsLeft >= 1
    /\ \E email \in Emails, password \in Passwords, confirm \in Passwords, complete \in BOOLEAN :
        /\ StartRequest(r, registrationRoute([Idle EXCEPT !.route = "registerUser",
              !.body = [NoBody EXCEPT !.email = email, !.password = password,
                                      !.confirmPassword = confirm, !.complete = complete]]))

\* authenticateToken up to pool.getConnection()
authenticateTokenEntryOneCode(q) ==
    IF q.token.state = "none" THEN Respond(q, 401, "MISSING_TOKEN")
    ELSE IF verifyToken(q.token) # "ok" THEN Respond(q, 401, "TOKEN_EXPIRED")
    ELSE [q EXCEPT !.pc = "auth_conn"]
authenticateTokenEntry(q) ==
    IF q.token.state = "none" THEN Respond(q, 401, "MISSING_TOKEN")
    ELSE IF verifyToken(q.token) = "JsonWebTokenError" THEN Respond(q, 403, "INVALID_TOKEN")
    ELSE IF verifyToken(q.token) = "TokenExpiredError" THEN Respond(q, 401, "TOKEN_EXPIRED")
    ELSE [q EXCEPT !.pc = "auth_conn"]

\* validateUserProfileUpdate / validatePasswordChange: the field rules of the body
\* (the other user-profile routes have no body validation)
validateBody(route, body) ==
    route \in {"updateUserInfo", "changeUserPassword"} => body.complete

\* /api/user-profile routes: validateUserId, (body validation), authenticateAndOwnResource
userProfileRouteNoValidation(q) == authenticateTokenEntry(q)
userProfileRoute(q) ==
    IF ~validateUserId(q.pathId) THEN Respond(q, 400, "Validation failed")
    ELSE IF ~validateBody(q.route, q.body) THEN Respond(q, 400, "Validation failed")
    ELSE authenticateTokenEntry(q)

Bodies(route) ==
    CASE route = "updateUserInfo" ->
            {[NoBody EXCEPT !.email = "a", !.fields = {"email"}],
             [NoBody EXCEPT !.email = "b", !.phone = "2", !.fields = {"email", "phone"}],
             [NoBody EXCEPT !.phone = "2", !.fields = {"phone"}]}
      [] route = "changeUserPassword" ->
            {[NoBody EXCEPT !.password = c, !.newPassword = n] : c \in Passwords, n \in Passwords}
      [] route = "updateUserServices" ->
            {NoBody} \cup {[NoBody EXCEPT !.names = L, !.hasNames = TRUE] : L \in ServiceLists}
      [] route = "updateUserServiceAreas" ->
            {NoBody} \cup {[NoBody EXCEPT !.names = L, !.hasNames = TRUE] : L \in CountyLists}
      [] OTHER -> {NoBody}

\* (a body is well-formed or not; the fields of a well-formed body are drawn when
\* the handler is entered)
StartUserProfile(r) ==
    /\ CanStart(r)
    /\ \E route \in OwnerRoutes, pathId \in PathIds, token \in Presentable, complete \in BOOLEAN :
            StartRequest(r, userProfileRoute([Idle EXCEPT !.route = route, !.pathId = pathId,
                                                          !.token = token, !.body.complete = complete]))

\* a caller of DatabaseService.executeQuery / executeTransaction
StartService(r) ==
    /\ CanStart(r)
    /\ \E service \in ServiceCalls, u \in Ids :
        StartRequest(r, [Idle EXCEPT !.route = service, !.pathId = u,
                                     !.pc = IF service = "executeQuery" THEN "sq_conn" ELSE "st_conn"])

\* the observation state of a finished request is left at once
Retire(r) ==
    /\ req[r].pc = "done"
    /\ req' = [req EXCEPT ![r] = Idle]
    /\ UNCHANGED <<db, nextId, issued, accepted, started, pg, countyTable, call, eh>>

----------------------------------------------------------------------------
(* Steps shared by the handlers *)

AfterConnect(route) ==
    CASE route = "loginUser" -> "lg_select"
      [] route = "registerUser" -> "reg_begin"
      [] route = "getUserProfile" -> "gp_surveyor"
      [] route = "updateUserInfo" -> "ui_begin"
      [] route = "changeUserPassword" -> "cp_begin"
      [] route \in {"updateUserServices", "updateUserServiceAreas"} -> "ra_begin"
      [] route = "deleteUser" -> "du_begin"
      [] route = "executeQuery" -> "sq_execute"
      [] OTHER -> "st_begin"

AfterBegin(route) ==
    CASE route = "registerUser" -> "reg_check"
      [] route = "updateUserInfo" -> "ui_update"
      [] route = "changeUserPassword" -> "cp_select"
      [] route \in {"updateUserServices", "updateUserServiceAreas"} -> "ra_delete"
      [] route = "deleteUser" -> "du_services"
      [] OTHER -> "st_callback"

ConnPcs == {"lg_conn", "reg_conn", "gp_conn", "ui_conn", "cp_conn", "ra_conn", "du_conn", "sq_conn", "st_conn"}
BeginPcs == {"reg_begin", "ui_begin", "cp_begin", "ra_begin", "du_begin", "st_begin"}
CommitPcs == {"reg_commit", "ui_commit", "cp_commit", "ra_commit", "du_commit", "st_commit"}

\* an awaited call of the handler rejects: control goes to the handler's catch block
Raise(q, at) ==
    LET f == [q EXCEPT !.failedAt = IF @ = "none" THEN at ELSE @]
    IN CASE q.route \in {"loginUser", "getUserProfile"} -> Respond(f, 500, "Server error")
         [] q.route = "executeQuery" -> Respond(f, 0, "thrown")
         [] q.route = "executeTransaction" /\ ~q.conn -> Respond(f, 0, "thrown")
         [] q.route # "executeTransaction" /\ ~q.conn -> Respond(f, 500, "Server error")
         [] OTHER -> [f EXCEPT !.pc = "catch"]

\* the store (or the pool) fails the call: lost connection, timeout, ...
Throw(q, at) == Raise(WithErr([q EXCEPT !.fault = TRUE], ConnectionLost), at)

Step(r, q) ==
    /\ req' = [req EXCEPT ![r] = Track(q)]
    /\ UNCHANGED <<started, pg, countyTable, call, eh>>

\* connection = await pool.getConnection()
GetConnection(r) ==
    LET q == req[r] IN
    /\ Turn(r)
    /\ q.pc \in ConnPcs
    /\ \/ /\ TotalHeld < connectionLimit
          /\ Step(r, [q EXCEPT !.conn = TRUE, !.acq = @ + 1, !.pc = AfterConnect(q.route)])
       \/ \E e \in ConnectErrors : Step(r, Throw(WithErr(q, e), q.pc))
    /\ UNCHANGED <<db, nextId, issued, accepted>>

\* await connection.beginTransaction()
BeginTransaction(r) ==
    LET q == req[r] IN
    /\ Turn(r)
    /\ q.pc \in BeginPcs
    /\ \/ Step(r, [q EXCEPT !.txn = TRUE, !.begun = TRUE, !.pc = AfterBegin(q.route)])
       \/ Step(r, Throw(q, q.pc))
    /\ UNCHANGED <<db, nextId, issued, accepted>>

\* the response of a handler whose commit succeeded
Success(q) ==
    CASE q.route = "registerUser" -> Respond(q, 201, "User registered successfully!")
      [] q.route = "executeTransaction" -> Respond(q, 0, "returned")
      [] OTHER -> Respond(q, 200, "ok")

\* the plaintext the store now holds the hash of
Accept(q) ==
    CASE q.route = "registerUser" -> [accepted EXCEPT ![q.surveyorId] = q.body.password]
      [] q.route = "changeUserPassword" -> [accepted EXCEPT ![q.pathId] = q.body.newPassword]
      [] OTHER -> accepted

\* await connection.commit(), then the success response and the finally block
Commit(r) ==
    LET q == req[r] IN
    /\ Turn(r)
    /\ q.pc \in CommitPcs
    /\ \/ /\ db' = Committed(q)
          /\ accepted' = Accept(q)
          /\ Step(r, Success(q))
       \/ /\ Step(r, Throw(q, q.pc))
          /\ UNCHANGED <<db, accepted>>
    /\ UNCHANGED <<nextId, issued>>

Cleared(q) == [q EXCEPT !.txn = FALSE, !.del = EmptyRows, !.ins = EmptyRows, !.locks = {}]

\* catch (error) { if (connection) await connection.rollback(); res.status(500)... } finally {...}
Catch(r) ==
    LET q == req[r] IN
    /\ Turn(r)
    /\ q.pc = "catch"
    /\ \/ /\ db' = Rollback(q)
          /\ Step(r, IF q.route = "executeTransaction"
                     THEN Respond(Cleared(q), 0, "thrown")
                     ELSE Respond(Cleared(q), 500, "Server error"))
       \/ \* the rollback rejects inside the catch block: only the finally block runs, and
          \* the promise of the handler rejects with the error of the rollback.  The
          \* router either leaves the rejection unhandled (no response) or passes it to
          \* the error-handling middleware, depending on its version.
          /\ db' = db
          /\ \/ Step(r, Finally([q EXCEPT !.pc = "done", !.fault = TRUE,
                                          !.msg = IF q.route = "executeTransaction"
                                                  THEN "thrown rollback error" ELSE "unhandled rejection"]))
             \/ /\ q.route # "executeTransaction"
                /\ Step(r, Finally([q EXCEPT !.pc = "done", !.fault = TRUE,
                                             !.status = errorHandler(ConnectionLost).status,
                                             !.msg = errorHandler(ConnectionLost).code]))
    /\ UNCHANGED <<nextId, issued, accepted>>

PendingMsg(status) ==
    CASE status = 409 -> "User with that email already exists."
      [] status = 404 -> "User not found."
      [] status = 401 -> "Incorrect current password."
      [] OTHER -> "Password update failed. No rows affected."

\* await connection.rollback(); return res.status(4xx)...
RollbackReturn(r) ==
    LET q == req[r] IN
    /\ Turn(r)
    /\ q.pc = "rollback_ret"
    /\ \/ /\ db' = Rollback(q)
          /\ Step(r, Respond(Cleared(q), q.pending, PendingMsg(q.pending)))
       \/ /\ db' = db
          /\ Step(r, Throw(q, q.pc))
    /\ UNCHANGED <<nextId, issued, accepted>>

----------------------------------------------------------------------------
(* loginUser *)

loginUser(r) ==
    LET q == req[r]
        users == {u \in db.surveyors : u.email = q.body.email}
    IN
    /\ Turn(r)
    /\ \/ /\ q.pc = "lg_select"
          /\ \/ /\ users = {}
                /\ Step(r, Respond(q, 401, "Invalid credentials: Email not found."))
             \/ \E user \in users : Step(r, [q EXCEPT !.row = user, !.pc = "lg_compare"])
             \/ Step(r, Throw(q, q.pc))
          /\ UNCHANGED issued
       \/ \* await bcrypt.compare(password, user.password), with the connection held
          /\ q.pc = "lg_compare"
          /\ LET user == q.row IN
             IF ~compare(q.body.password, user.password)
             THEN /\ Step(r, Respond(q, 401, "Invalid credentials: Incorrect password."))
                  /\ UNCHANGED issued
             ELSE /\ Step(r, Respond([q EXCEPT !.token = [userId |-> user.id, email |-> user.email, state |-> "valid"]],
                                     200, "Login successful!"))
                  /\ issued' = issued \cup {generateToken(user.id, user.email)}
    /\ UNCHANGED <<db, nextId, accepted>>

----------------------------------------------------------------------------
(* registerUser *)

\* the UNIQUE index on surveyors.email
DupEmailNever(q, email, id) == FALSE
DupEmail(q, email, id) == \E row \in View(q).surveyors : row.email = email /\ row.id # id

\* a row lock or index lock another open transaction holds
BlockedEmail(r, email) == \E row \in OthersRows(r).surveyors : row.email = email
BlockedSurveyor(r, u) == \E row \in OthersRows(r).surveyors : row.id = u
BlockedAssoc(r, table, u) == \E x \in OthersRows(r)[table] : x[1] = u

\* another open transaction holds the range an INSERT for the surveyor falls into
RangeLocked(r, table, u) == \E o \in Req \ {r} : <<table, u>> \in req[o].locks

\* ... and waits itself for the range this transaction holds: the store ends the
\* wait of one of the two with an error (ER_LOCK_DEADLOCK)
Deadlocked(r, table, u) ==
    \E o \in Req \ {r} :
        /\ <<table, u>> \in req[o].locks
        /\ req[o].pc = "ra_insert"
        /\ <<IF req[o].route = "updateUserServices" THEN "services" ELSE "counties", req[o].pathId>>
              \in req[r].locks

\* INSERT of rows inside the transaction (wins, wdel: every row the request's
\* statements added and removed, kept for the record after the transaction ends)
InsertRows(q, table, rows) == [q EXCEPT !.ins[table] = @ \cup rows, !.wins[table] = @ \cup rows]

\* SELECT id FROM surveyors WHERE email = ?
existingUsersNone(q) == {}
existingUsers(q) == {row \in View(q).surveyors : row.email = q.body.email}

\* SELECT id FROM counties WHERE name IN (defaultCountyNames)
countyRowsAll(q) == {c.id : c \in CountyTable}
countyRows(q) == {c.id : c \in {x \in CountyTable : x.name \in defaultCountyNames}}

registerUser(r) ==
    LET q == req[r] IN
    /\ Turn(r)
    /\ \/ /\ q.pc = "reg_check"
          /\ IF existingUsers(q) # {}
             THEN Step(r, [q EXCEPT !.pending = 409, !.pc = "rollback_ret"])
             ELSE Step(r, [q EXCEPT !.pc = "reg_hash"])
          /\ UNCHANGED nextId
       \/ \* await hashPassword(password), inside the transaction
          /\ q.pc = "reg_hash"
          /\ \E salt \in Salts :
                Step(r, [q EXCEPT !.hashed = hashPassword(q.body.password, salt), !.pc = "reg_insert"])
          /\ UNCHANGED nextId
       \/ /\ q.pc = "reg_insert"
          /\ ~BlockedEmail(r, q.body.email)
          /\ IF DupEmail(q, q.body.email, 0)
             THEN Step(r, Raise(WithErr(q, DriverError("ER_DUP_ENTRY")), q.pc)) /\ UNCHANGED nextId
             ELSE /\ Step(r, [InsertRows(q, "surveyors",
                                 {[id |-> nextId, email |-> q.body.email, phone |-> "1", password |-> q.hashed]})
                              EXCEPT !.surveyorId = nextId, !.pc = "reg_counties"])
                  /\ nextId' = nextId + 1
       \/ /\ q.pc = "reg_counties"
          /\ LET found == countyRows(q)
             IN Step(r, [q EXCEPT !.ids = found, !.pc = IF found # {} THEN "reg_cinsert" ELSE "reg_commit"])
          /\ UNCHANGED nextId
       \/ /\ q.pc = "reg_cinsert"
          /\ ~RangeLocked(r, "counties", q.surveyorId)
          /\ Step(r, [InsertRows(q, "counties", {<<q.surveyorId, c>> : c \in q.ids}) EXCEPT !.pc = "reg_commit"])
          /\ UNCHANGED nextId
       \/ /\ q.pc \in {"reg_check", "reg_insert", "reg_counties", "reg_cinsert"}
          /\ Step(r, Throw(q, q.pc))
          /\ UNCHANGED nextId
    /\ UNCHANGED <<db, issued, accepted>>

----------------------------------------------------------------------------
(* authenticateToken, checkResourceOwnership and the entry of the handlers *)

HandlerConnPc(route) ==
    CASE route = "getUserProfile" -> "gp_conn"
      [] route = "updateUserInfo" -> "ui_conn"
      [] route = "changeUserPassword" -> "cp_conn"
      [] route \in {"updateUserServices", "updateUserServiceAreas"} -> "ra_conn"
      [] OTHER -> "du_conn"

\* the handler up to its call of pool.getConnection()
handlerEntry(q) ==
    IF q.pathId = 0 THEN Respond(q, 400, "User ID is required.")
    ELSE IF q.route = "changeUserPassword" /\ (q.body.password = "" \/ q.body.newPassword = "")
         THEN Respond(q, 400, "User ID, current password, and new password are required.")
         ELSE [q EXCEPT !.pc = HandlerConnPc(q.route)]

\* req.user?.id !== parseInt(req.params.id): 403, else next()
checkResourceOwnershipOpen(q) == handlerEntry(q)
checkResourceOwnership(q) ==
    IF q.user.id # q.pathId THEN Respond(q, 403, "ACCESS_DENIED")
    ELSE handlerEntry(q)

\* req.user = {...}; next(); and then the finally block releases the connection
authNextReleaseFirst(q) ==
    Track(checkResourceOwnership(
        ReleaseConnection([q EXCEPT !.user = [id |-> q.token.userId, email |-> q.token.email]])))
authNext(q) ==
    ReleaseConnection(Track(checkResourceOwnership(
        [q EXCEPT !.user = [id |-> q.token.userId, email |-> q.token.email]])))

\* SELECT id, email FROM surveyors WHERE id = ? (decoded.userId)
tokenUsersUnchecked(q) == {[id |-> q.token.userId, email |-> q.token.email]}
tokenUsers(q) == {[id |-> u.id, email |-> u.email] : u \in {x \in db.surveyors : x.id = q.token.userId}}

authenticateToken(r) ==
    LET q == req[r] IN
    /\ Turn(r)
    /\ \/ /\ q.pc = "auth_conn"
          /\ \/ /\ TotalHeld < connectionLimit
                /\ Step(r, [q EXCEPT !.acq = @ + 1, !.pc = "auth_select"])
             \/ \E e \in ConnectErrors :
                    Step(r, Respond(WithErr([q EXCEPT !.failedAt = "auth_conn", !.fault = TRUE], e), 500, "AUTH_ERROR"))
       \/ /\ q.pc = "auth_select"
          /\ \/ IF tokenUsers(q) = {}
                THEN Step(r, ReleaseConnection(Respond(q, 401, "USER_NOT_FOUND")))
                ELSE \E body \in Bodies(q.route) : Step(r, authNext([q EXCEPT !.body = body]))
             \/ Step(r, Respond(ReleaseConnection(WithErr([q EXCEPT !.failedAt = "auth_select", !.fault = TRUE], ConnectionLost)),
                                500, "AUTH_ERROR"))
    /\ UNCHANGED <<db, nextId, issued, accepted>>

----------------------------------------------------------------------------
(* The user-profile handlers *)

getUserProfile(r) ==
    LET q == req[r] IN
    /\ Turn(r)
    /\ \/ /\ q.pc = "gp_surveyor"
          /\ IF {u \in db.surveyors : u.id = q.pathId} = {}
             THEN Step(r, Respond(q, 404, "User not found."))
             ELSE Step(r, [q EXCEPT !.pc = "gp_services"])
       \/ /\ q.pc = "gp_services"
          /\ Step(r, [q EXCEPT !.ids = {x[2] : x \in {y \in db.services : y[1] = q.pathId}}, !.pc = "gp_counties"])
       \/ /\ q.pc = "gp_counties"
          /\ Step(r, Respond(q, 200, "ok"))
       \/ /\ q.pc \in {"gp_surveyor", "gp_services", "gp_counties"}
          /\ Step(r, Throw(q, q.pc))
    /\ UNCHANGED <<db, nextId, issued, accepted>>

\* UPDATE of one surveyors row inside the transaction
ReplaceRow(q, old, new) ==
    [q EXCEPT !.del.surveyors = @ \cup ({old} \cap db.surveyors),
              !.ins.surveyors = (@ \ {old}) \cup {new},
              !.wdel.surveyors = @ \cup {old},
              !.wins.surveyors = @ \cup {new}]

\* DELETE of rows inside the transaction
DeleteRows(q, table, gone) ==
    [q EXCEPT !.del[table] = @ \cup (gone \cap db[table]),
              !.ins[table] = @ \ gone,
              !.wdel[table] = @ \cup gone]

\* DELETE FROM <association table> WHERE surveyor_id = ?: the rows of the surveyor
\* are removed, and the transaction holds the range of the key (surveyor_id, *) to
\* its end (the store at its default isolation level)
DeleteWhereNothing(q, table, u) == [q EXCEPT !.locks = @ \cup {<<table, u>>}]
DeleteWhere(q, table, u) ==
    [DeleteRows(q, table, {x \in View(q)[table] : x[1] = u}) EXCEPT !.locks = @ \cup {<<table, u>>}]

\* the bind parameters [firstName, ..., email, phone || null, ..., userId]: a field
\* the body does not supply is undefined, and connection.execute rejects a
\* parameter list that contains undefined
undefinedParams(body) == "email" \notin body.fields

\* UPDATE surveyors SET ..., email = ?, phone = ?, ... : every column is assigned,
\* phone from (phone || null)
updatedRow(old, body) ==
    [old EXCEPT !.email = body.email,
                !.phone = IF "phone" \in body.fields THEN body.phone ELSE Null]

updateUserInfo(r) ==
    LET q == req[r]
        rows == {u \in View(q).surveyors : u.id = q.pathId}
    IN
    /\ Turn(r)
    /\ \/ /\ q.pc = "ui_update"
          /\ ~BlockedSurveyor(r, q.pathId)
          /\ ~BlockedEmail(r, q.body.email)
          /\ IF undefinedParams(q.body)
             THEN Step(r, Raise(WithErr(q, TypeError), q.pc))
             ELSE IF rows = {}
             THEN Step(r, [q EXCEPT !.pending = 404, !.pc = "rollback_ret"])
             ELSE IF DupEmail(q, q.body.email, q.pathId)
                  THEN Step(r, Raise(WithErr(q, DriverError("ER_DUP_ENTRY")), q.pc))
                  ELSE \E old \in rows :
                          Step(r, [ReplaceRow(q, old, updatedRow(old, q.body)) EXCEPT !.pc = "ui_commit"])
       \/ /\ q.pc = "ui_update"
          /\ Step(r, Throw(q, q.pc))
    /\ UNCHANGED <<db, nextId, issued, accepted>>


changeUserPassword(r) ==
    LET q == req[r]
        rows == {u \in View(q).surveyors : u.id = q.pathId}
    IN
    /\ Turn(r)
    /\ \/ /\ q.pc = "cp_select"
          /\ IF rows = {}
             THEN Step(r, [q EXCEPT !.pending = 404, !.pc = "rollback_ret"])
             ELSE \E row \in rows : Step(r, [q EXCEPT !.row = row, !.pc = "cp_compare"])
       \/ \* await bcrypt.compare(currentPassword, hashedPassword), inside the transaction
          /\ q.pc = "cp_compare"
          /\ IF ~compare(q.body.password, q.row.password)
             THEN Step(r, [q EXCEPT !.pending = 401, !.pc = "rollback_ret"])
             ELSE Step(r, [q EXCEPT !.pc = "cp_hash"])
       \/ \* await bcrypt.hash(newPassword, await bcrypt.genSalt(10)), inside the transaction
          /\ q.pc = "cp_hash"
          /\ \E salt \in Salts :
                Step(r, [q EXCEPT !.hashed = hashPassword(q.body.newPassword, salt), !.pc = "cp_update"])
       \/ /\ q.pc = "cp_update"
          /\ ~BlockedSurveyor(r, q.pathId)
          /\ IF rows = {}
             THEN Step(r, [q EXCEPT !.pending = 500, !.pc = "rollback_ret"])
             ELSE \E old \in rows :
                     Step(r, [ReplaceRow(q, old, [old EXCEPT !.password = q.hashed]) EXCEPT !.pc = "cp_commit"])
       \/ /\ q.pc \in {"cp_select", "cp_update"}
          /\ Step(r, Throw(q, q.pc))
    /\ UNCHANGED <<db, nextId, issued, accepted>>

AssocTable(route) == IF route = "updateUserServices" THEN "services" ELSE "counties"
RefTable(route) == IF route = "updateUserServices" THEN SubcategoryTable ELSE CountyTable

\* SELECT id FROM <reference table> WHERE name IN (...)
ResolveAll(route, names) == {x.id : x \in RefTable(route)}
Resolve(route, names) == {x.id : x \in {y \in RefTable(route) : y.name \in names}}

\* FOREIGN KEY (surveyor_id) REFERENCES surveyors(id) of surveyors_services: an
\* INSERT for a surveyor that has no row is refused
ServicesParentAny(q, u) == FALSE
ServicesParentMissing(q, u) == ~\E row \in View(q).surveyors : row.id = u

\* the same key of surveyors_counties
CountiesParentMissing(q, u) == ~\E row \in View(q).surveyors : row.id = u

ParentMissing(q, table, u) ==
    IF table = "services" THEN ServicesParentMissing(q, u) ELSE CountiesParentMissing(q, u)

\* the body of updateUserServices and of updateUserServiceAreas
ReplaceAssociations(r) ==
    LET q == req[r]
        table == AssocTable(q.route)
        rows == {<<q.pathId, i>> : i \in q.ids}
    IN
    /\ Turn(r)
    /\ \/ /\ q.pc = "ra_delete"
          /\ ~BlockedAssoc(r, table, q.pathId)
          /\ Step(r, [DeleteWhere(q, table, q.pathId)
                      EXCEPT !.pc = IF q.body.hasNames /\ q.body.names # {} THEN "ra_select" ELSE "ra_commit"])
       \/ /\ q.pc = "ra_select"
          /\ LET found == Resolve(q.route, q.body.names)
             IN Step(r, [q EXCEPT !.ids = found, !.pc = IF found # {} THEN "ra_insert" ELSE "ra_commit"])
       \/ /\ q.pc = "ra_insert"
          /\ ~BlockedSurveyor(r, q.pathId)
          /\ OthersRows(r)[table] \cap rows = {}
          /\ RangeLocked(r, table, q.pathId) => Deadlocked(r, table, q.pathId)
          /\ IF RangeLocked(r, table, q.pathId) \/ ParentMissing(q, table, q.pathId)
                \/ View(q)[table] \cap rows # {}
             THEN Step(r, Raise(WithErr(q, DriverError(
                                  IF RangeLocked(r, table, q.pathId) THEN "ER_LOCK_DEADLOCK"
                                  ELSE IF ParentMissing(q, table, q.pathId) THEN "ER_NO_REFERENCED_ROW_2"
                                  ELSE "ER_DUP_ENTRY")), q.pc))
             ELSE Step(r, [InsertRows(q, table, rows) EXCEPT !.pc = "ra_commit"])
       \/ /\ q.pc \in {"ra_delete", "ra_select", "ra_insert"}
          /\ Step(r, Throw(q, q.pc))
    /\ UNCHANGED <<db, nextId, issued, accepted>>

updateUserServices(r) == req[r].route = "updateUserServices" /\ ReplaceAssociations(r)

updateUserServiceAreas(r) == req[r].route = "updateUserServiceAreas" /\ ReplaceAssociations(r)

deleteUser(r) ==
    LET q == req[r]
        u == q.pathId
    IN
    /\ Turn(r)
    /\ \/ /\ q.pc = "du_services"
          /\ ~BlockedAssoc(r, "services", u)
          /\ Step(r, [DeleteWhere(q, "services", u) EXCEPT !.pc = "du_counties"])
       \/ /\ q.pc = "du_counties"
          /\ ~BlockedAssoc(r, "counties", u)
          /\ Step(r, [DeleteWhere(q, "counties", u) EXCEPT !.pc = "du_surveyor"])
       \/ /\ q.pc = "du_surveyor"
          /\ ~BlockedSurveyor(r, u)
          /\ ~BlockedAssoc(r, "services", u)
          /\ ~BlockedAssoc(r, "counties", u)
          /\ IF \E x \in View(q).services \cup View(q).counties : x[1] = u
             THEN Step(r, Raise(WithErr(q, DriverError("ER_ROW_IS_REFERENCED_2")), q.pc))
             ELSE IF {row \in View(q).surveyors : row.id = u} = {}
                  THEN Step(r, [q EXCEPT !.pending = 404, !.pc = "rollback_ret"])
                  ELSE Step(r, [DeleteRows(q, "surveyors", {row \in View(q).surveyors : row.id = u})
                                EXCEPT !.pc = "du_commit"])
       \/ /\ q.pc \in {"du_services", "du_counties", "du_surveyor"}
          /\ Step(r, Throw(q, q.pc))
    /\ UNCHANGED <<db, nextId, issued, accepted>>

----------------------------------------------------------------------------
(* DatabaseService *)

executeQuery(r) ==
    LET q == req[r] IN
    /\ Turn(r)
    /\ q.pc = "sq_execute"
    /\ \/ Step(r, Respond(q, 0, "returned"))
       \/ Step(r, Throw(q, q.pc))
    /\ UNCHANGED <<db, nextId, issued, accepted>>

\* the callback of executeTransaction: one write on the connection, or a throw
executeTransaction(r) ==
    LET q == req[r] IN
    /\ Turn(r)
    /\ q.pc = "st_callback"
    /\ \/ /\ ~BlockedAssoc(r, "counties", q.pathId)
          /\ Step(r, [DeleteWhere(q, "counties", q.pathId) EXCEPT !.pc = "st_commit"])
       \/ Step(r, Throw(q, q.pc))
    /\ UNCHANGED <<db, nextId, issued, accepted>>

----------------------------------------------------------------------------

\* no error passed to the error-handling middleware
NoHandled == [err |-> NoErr, url |-> "", development |-> FALSE, pc |-> "off",
              status |-> 0, code |-> "", path |-> "", stack |-> FALSE, validationErrors |-> FALSE]

\* no call of a DatabaseService helper in progress
NoCall == [op |-> "none", present |-> FALSE, records |-> 0, pc |-> "off",
           asked |-> 0, acq |-> 0, rel |-> 0, peak |-> 0, queries |-> 0, outcome |-> "",
           result |-> [kind |-> "none", n |-> 0, affectedRows |-> 0, insertId |-> 0]]

NoPaginate == [page |-> 0, limit |-> 0, total |-> 0, pc |-> "off", acq |-> 0, rel |-> 0,
               count |-> 0, sqlLimit |-> 0, sqlOffset |-> 0, rows |-> 0,
               totalPages |-> 0, hasNext |-> FALSE, hasPrev |-> FALSE]

\* The server starts against an empty store, or against a store in which one
\* surveyor registered (email "a", password "p") and logged in before.
Init ==
    /\ \/ /\ db = EmptyRows
          /\ nextId = 1
          /\ issued = {}
          /\ accepted = [i \in Ids |-> ""]
          /\ countyTable \in CountyTables
       \/ /\ countyTable = {[id |-> 1, name |-> "Boulder"], [id |-> 2, name |-> "Adams"]}
          /\ db = [surveyors |-> {[id |-> 1, email |-> "a", phone |-> "1",
                                    password |-> [kind |-> "bcrypt", plain |-> "p", salt |-> "s1"]]},
                   services |-> {},
                   counties |-> {<<1, c>> : c \in {x.id : x \in {y \in CountyTable : y.name \in defaultCountyNames}}}]
          /\ nextId = 2
          /\ issued = {generateToken(1, "a")}
          /\ accepted = [i \in Ids |-> IF i = 1 THEN "p" ELSE ""]
    /\ req = [r \in Req |-> Idle]
    /\ started = 0
    /\ pg = NoPaginate
    /\ call = NoCall
    /\ eh = NoHandled

Next ==
    \E r \in Req :
        \/ StartLogin(r)
        \/ StartRegister(r)
        \/ StartUserProfile(r)
        \/ StartService(r)
        \/ Retire(r)
        \/ GetConnection(r)
        \/ BeginTransaction(r)
        \/ Commit(r)
        \/ Catch(r)
        \/ RollbackReturn(r)
        \/ loginUser(r)
        \/ registerUser(r)
        \/ authenticateToken(r)
        \/ getUserProfile(r)
        \/ updateUserInfo(r)
        \/ changeUserPassword(r)
        \/ updateUserServices(r)
        \/ updateUserServiceAreas(r)
        \/ deleteUser(r)
        \/ executeQuery(r)
        \/ executeTransaction(r)

Spec == Init /\ [][Next]_vars

----------------------------------------------------------------------------
(* DatabaseService.paginate over a table of pg.total matching rows *)

\* Math.ceil(total / limit)
ceilFloor(total, limit) == total \div limit
ceil(total, limit) == IF total % limit = 0 THEN total \div limit ELSE (total \div limit) + 1

\* const offset = (page - 1) * limit
offsetFromPage(page, limit) == page * limit
offset(page, limit) == (page - 1) * limit

\* rows the store returns for LIMIT l OFFSET o over t rows
Window(t, l, o) == Max(0, Min(l, t - o))

InitPaginate ==
    /\ countyTable = {[id |-> 1, name |-> "Boulder"], [id |-> 2, name |-> "Adams"]}
    /\ db = EmptyRows
    /\ nextId = 1
    /\ issued = {}
    /\ accepted = [i \in Ids |-> ""]
    /\ req = [r \in Req |-> Idle]
    /\ started = 0
    /\ eh = NoHandled
    /\ call = NoCall
    /\ pg \in {[NoPaginate EXCEPT !.page = p, !.limit = l, !.total = t, !.pc = "count_conn"] :
                 p \in 1..MaxPage, l \in 1..MaxLimit, t \in 0..MaxTotal}

\* executeQuery: connection = await pool.getConnection()
PaginateConnect ==
    /\ pg.pc \in {"count_conn", "data_conn"}
    /\ \/ pg' = [pg EXCEPT !.acq = @ + 1, !.pc = IF pg.pc = "count_conn" THEN "count_exec" ELSE "data_exec"]
       \/ pg' = [pg EXCEPT !.pc = "thrown"]
    /\ UNCHANGED <<db, nextId, req, issued, accepted, started, countyTable, call, eh>>

\* SELECT COUNT(*) as total ...; const total = countResult[0].total
PaginateCount ==
    /\ pg.pc = "count_exec"
    /\ \/ pg' = [pg EXCEPT !.count = pg.total, !.rel = @ + 1, !.pc = "data_conn"]
       \/ pg' = [pg EXCEPT !.rel = @ + 1, !.pc = "thrown"]
    /\ UNCHANGED <<db, nextId, req, issued, accepted, started, countyTable, call, eh>>

\* SELECT ... LIMIT ? OFFSET ?, and the returned {data, pagination}
PaginateData ==
    /\ pg.pc = "data_exec"
    /\ \/ pg' = [pg EXCEPT !.sqlLimit = pg.limit,
                           !.sqlOffset = offset(pg.page, pg.limit),
                           !.rows = Window(pg.total, pg.limit, offset(pg.page, pg.limit)),
                           !.totalPages = ceil(pg.count, pg.limit),
                           !.hasNext = pg.page < ceil(pg.count, pg.limit),
                           !.hasPrev = pg.page > 1,
                           !.rel = @ + 1, !.pc = "done"]
       \/ pg' = [pg EXCEPT !.rel = @ + 1, !.pc = "thrown"]
    /\ UNCHANGED <<db, nextId, req, issued, accepted, started, countyTable, call, eh>>

NextPaginate == PaginateConnect \/ PaginateCount \/ PaginateData

SpecPaginate == InitPaginate /\ [][NextPaginate]_vars

----------------------------------------------------------------------------
(* The record access helpers of DatabaseService.  Each is a sequence of calls  *)
(* of executeQuery, followed by what the helper does with the result.          *)

MaxRecords == 2     \* records given to batchInsert

HelperOps == {"findById", "findByField", "insert", "updateById", "deleteById",
              "existsByField", "paginate", "batchInsert"}

\* calls of executeQuery the helper makes when none fails
QueriesOf(op) == IF op = "paginate" THEN 2 ELSE 1

\* if (!records || records.length === 0); records: -1 for a missing argument,
\* else the number of records
emptyRecordsMissingOnly(records) == records < 0
emptyRecords(records) == records <= 0

\* JavaScript values the helpers handle: an array of n rows, the result header of a
\* write, a row, a page, null, undefined, a boolean, or a thrown error
Value(kind) == [kind |-> kind, n |-> 0, affectedRows |-> 0, insertId |-> 0]
RowArray(n) == [Value("rows") EXCEPT !.n = n]
ResultHeader(affectedRows, insertId) ==
    [Value("header") EXCEPT !.affectedRows = affectedRows, !.insertId = insertId]

\* what connection.execute resolves to, [results, fields]: for a SELECT the array of
\* rows, for a write the result header (affected rows, generated id)
driverResult(c) ==
    CASE c.op \in {"findById", "findByField", "existsByField", "paginate"} ->
            <<RowArray(IF c.present THEN 1 ELSE 0), Value("fields")>>
      [] c.op = "insert" -> <<ResultHeader(1, nextId), Value("undefined")>>
      [] c.op = "batchInsert" -> <<ResultHeader(c.records, nextId), Value("undefined")>>
      [] OTHER -> <<ResultHeader(IF c.present THEN 1 ELSE 0, 0), Value("undefined")>>

\* executeQuery: const [results] = await connection.execute(...); return results
executeQueryResult(c) == driverResult(c)[1]

\* const [result] = value: the first element of an array; a value that is not
\* iterable (a result header) makes the destructuring throw a TypeError
firstOf(value) ==
    IF value.kind = "rows" THEN (IF value.n > 0 THEN Value("row") ELSE Value("undefined"))
    ELSE Value("TypeError")

\* what the helper returns (or throws) from the result of its last query
HelperValue(c) ==
    LET results == executeQueryResult(c) IN
    CASE c.op = "findById" -> IF results.n > 0 THEN Value("row") ELSE Value("null")
      [] c.op = "findByField" -> results
      [] c.op = "existsByField" -> IF results.n > 0 THEN Value("true") ELSE Value("false")
      [] c.op = "paginate" -> Value("page")
      [] OTHER -> firstOf(results)

HelperResult(c) == HelperValue(c).kind

InitHelper ==
    /\ countyTable = {[id |-> 1, name |-> "Boulder"], [id |-> 2, name |-> "Adams"]}
    /\ db = EmptyRows
    /\ nextId = 1
    /\ issued = {}
    /\ accepted = [i \in Ids |-> ""]
    /\ req = [r \in Req |-> Idle]
    /\ started = 0
    /\ eh = NoHandled
    /\ pg = NoPaginate
    /\ call \in {[NoCall EXCEPT !.op = op, !.present = present, !.records = n, !.pc = "start"] :
                   op \in HelperOps, present \in BOOLEAN, n \in -1..MaxRecords}

\* the helper up to its first await
HelperStart ==
    /\ call.pc = "start"
    /\ call' = IF call.op = "batchInsert" /\ emptyRecords(call.records)
               THEN [call EXCEPT !.pc = "done", !.outcome = "affectedRows 0, insertId null"]
               ELSE [call EXCEPT !.pc = "conn", !.asked = @ + 1]
    /\ UNCHANGED <<db, nextId, req, issued, accepted, started, pg, countyTable, eh>>

\* executeQuery: connection = await pool.getConnection()
HelperConnect ==
    /\ call.pc = "conn"
    /\ \/ call' = [call EXCEPT !.acq = @ + 1, !.pc = "exec",
                                !.peak = Max(@, call.acq + 1 - call.rel)]
       \/ call' = [call EXCEPT !.pc = "done", !.outcome = "thrown"]
    /\ UNCHANGED <<db, nextId, req, issued, accepted, started, pg, countyTable, eh>>

\* executeQuery: await connection.execute(query, params), return or throw, and the
\* finally block; then the rest of the helper up to its next await
HelperExecute ==
    /\ call.pc = "exec"
    /\ \/ call' = IF call.queries + 1 < QueriesOf(call.op)
                  THEN [call EXCEPT !.queries = @ + 1, !.rel = @ + 1, !.pc = "conn", !.asked = @ + 1]
                  ELSE [call EXCEPT !.queries = @ + 1, !.rel = @ + 1, !.pc = "done",
                                    !.outcome = HelperResult(call), !.result = HelperValue(call)]
       \/ call' = [call EXCEPT !.rel = @ + 1, !.pc = "done", !.outcome = "thrown"]
    /\ UNCHANGED <<db, nextId, req, issued, accepted, started, pg, countyTable, eh>>

NextHelper == HelperStart \/ HelperConnect \/ HelperExecute

SpecHelper == InitHelper /\ [][NextHelper]_vars

----------------------------------------------------------------------------
(* errorHandler, the last middleware of the application: an error reaches it *)
(* through next(err)                                                       *)

Urls == {"/api/auth/login", "/api/registration/register-user", "/api/user-profile/1"}

\* errors a middleware or a handler can pass on
Errors == ErrorClasses \cup {AppError(500, "APP_ERROR"), TypeError, ConnectionLost}
            \cup ConnectErrors \cup {DriverError("ER_DUP_ENTRY"), DriverError("ER_NO_REFERENCED_ROW_2")}

InitErrors ==
    /\ countyTable = {[id |-> 1, name |-> "Boulder"], [id |-> 2, name |-> "Adams"]}
    /\ db = EmptyRows
    /\ nextId = 1
    /\ issued = {}
    /\ accepted = [i \in Ids |-> ""]
    /\ req = [r \in Req |-> Idle]
    /\ started = 0
    /\ pg = NoPaginate
    /\ call = NoCall
    /\ eh \in {[NoHandled EXCEPT !.err = e, !.url = u, !.development = d, !.pc = "next"] :
                 e \in Errors, u \in Urls, d \in BOOLEAN}

\* errorHandler(err, req, res, next): res.status(statusCode).json(errorResponse)
HandleError ==
    /\ eh.pc = "next"
    /\ eh' = [eh EXCEPT !.pc = "responded",
                         !.status = errorHandler(eh.err).status,
                         !.code = errorHandler(eh.err).code,
                         !.path = eh.url,
                         !.stack = eh.development,
                         !.validationErrors = eh.err.errors]
    /\ UNCHANGED <<db, nextId, req, issued, accepted, started, pg, countyTable, call>>

NextErrors == HandleError

SpecErrors == InitErrors /\ [][NextErrors]_vars

----------------------------------------------------------------------------
(* Properties *)

HandlerPcs == {"gp_conn", "gp_surveyor", "gp_services", "gp_counties",
               "ui_conn", "ui_begin", "ui_update", "ui_commit",
               "cp_conn", "cp_begin", "cp_select", "cp_compare", "cp_hash", "cp_update", "cp_commit",
               "ra_conn", "ra_begin", "ra_delete", "ra_select", "ra_insert", "ra_commit",
               "du_conn", "du_begin", "du_services", "du_counties", "du_surveyor", "du_commit",
               "catch", "rollback_ret"}

\* C1: for every store-touching operation and every exit path (success, early 4xx
\* return, a failure injected at any store step) each connection taken from the pool
\* is released exactly once: never more releases than acquisitions, never two
\* connections held, and none held when the operation has ended or when the handler
\* asks for its own connection.
C1_ReleasedExactlyOnce ==
    \A r \in Req :
        LET q == req[r] IN
        /\ q.rel <= q.acq
        /\ q.acq - q.rel <= 1
        /\ q.pc = "done" => q.rel = q.acq
        /\ q.pc \in ConnPcs => q.rel = q.acq

\* an owner-only request whose statement failed and whose rollback failed too
C1_Witness ==
    \E r \in Req :
        /\ req[r].pc = "done" /\ req[r].route = "updateUserServices"
        /\ req[r].failedAt = "ra_insert" /\ req[r].msg = "unhandled rejection"
        /\ req[r].acq = 2 /\ req[r].rel = 2

RowsInter(x, y) == [surveyors |-> x.surveyors \cap y.surveyors,
                    services |-> x.services \cap y.services,
                    counties |-> x.counties \cap y.counties]

C2_Restored ==
    \A r \in Req :
        LET q == req[r] IN
        (q.pc = "done" /\ q.begun /\ ~Succeeded(q)) =>
            /\ q.surveyorId # 0 => ~\E row \in db.surveyors : row.id = q.surveyorId
            /\ q.alone => /\ RowsMinus(q.wdel, db) = EmptyRows
                          /\ RowsInter(RowsMinus(q.wins, q.wdel), db) = EmptyRows

C2_OnlyCommitWrites ==
    db' # db => \E r \in Req : /\ req[r].pc \in CommitPcs
                               /\ req[r].failedAt = "none"
                               /\ req'[r].pc = "done"
                               /\ Succeeded(req'[r])

\* C2: a transactional write in which a store step fails after BEGIN leaves the
\* committed store as it was: the committed rows change only in the step in which a
\* request without a failed step commits and answers 2xx; when the failed request
\* ends, every committed row its statements removed is still there, no row they
\* added is there, and a failed registration leaves no surveyors row.
C2_FailedWriteLeavesStore == [](C2_Restored) /\ [][C2_OnlyCommitWrites]_vars

\* the DELETE and the SELECT of updateUserServiceAreas succeeded, its INSERT failed,
\* and the surveyor's previous county rows are in the store
C2_Witness ==
    \E r \in Req :
        /\ req[r].pc = "done" /\ req[r].route = "updateUserServiceAreas"
        /\ req[r].failedAt = "ra_insert" /\ req[r].status = 500
        /\ req[r].wdel.counties # {}
        /\ req[r].wdel.counties \subseteq db.counties

\* C3: after a 200 of updateUserServices / updateUserServiceAreas for user u with
\* name list L (run with no other request in flight), the association rows of u are
\* exactly {(u, r.id) : r in the reference table, r.name in L}: unknown names are
\* dropped, an empty or absent list leaves no row.
C3_ReplaceIsExact ==
    \A r \in Req :
        LET q == req[r] IN
        (q.pc = "done" /\ q.route \in {"updateUserServices", "updateUserServiceAreas"}
            /\ q.status = 200 /\ q.alone) =>
            {x \in db[AssocTable(q.route)] : x[1] = q.pathId}
              = {<<q.pathId, y.id>> : y \in {z \in RefTable(q.route) : q.body.hasNames /\ z.name \in q.body.names}}

\* one known and one unknown name: only the known one is associated
C3_Witness ==
    \E r \in Req :
        /\ req[r].pc = "done" /\ req[r].route = "updateUserServices" /\ req[r].status = 200
        /\ req[r].alone /\ req[r].body.names = {"ALTA", "Nowhere"}
        /\ {x \in db.services : x[1] = req[r].pathId} = {<<req[r].pathId, 1>>}

\* C4: registerUser with an email of a committed surveyors row (no store failure,
\* no other request in flight) answers 409 after a rollback, inserts nothing, and
\* the store holds exactly one row with that email.
C4_DuplicateEmailRejected ==
    \A r \in Req :
        LET q == req[r] IN
        (q.pc = "done" /\ q.route = "registerUser" /\ q.alone /\ ~q.fault /\ q.begun
            /\ \E row \in db.surveyors : row.email = q.body.email /\ row.id # q.surveyorId) =>
            /\ q.status = 409
            /\ q.surveyorId = 0 /\ q.wins = EmptyRows
            /\ ~q.txn
            /\ Cardinality({row \in db.surveyors : row.email = q.body.email}) = 1

C4_Witness ==
    \E r \in Req :
        /\ req[r].pc = "done" /\ req[r].route = "registerUser" /\ req[r].status = 409
        /\ req[r].alone /\ req[r].begun
        /\ Cardinality({row \in db.surveyors : row.email = req[r].body.email}) = 1

\* C5: a registration whose password differs from confirmPassword is answered 400
\* by the validation chain; registerUser is not entered, so no connection is taken,
\* no transaction begun and no row inserted.
C5_MismatchRejected ==
    \A r \in Req :
        LET q == req[r] IN
        (q.route = "registerUser" /\ q.body.password # q.body.confirmPassword) =>
            /\ q.pc = "done"
            /\ q.status = 400 /\ q.msg = "Validation failed"
            /\ q.acq = 0 /\ ~q.begun /\ ~q.txn
            /\ q.surveyorId = 0 /\ q.wins = EmptyRows

C5_Witness ==
    \E r \in Req :
        /\ req[r].pc = "done" /\ req[r].route = "registerUser" /\ req[r].status = 400
        /\ req[r].body.complete
        /\ req[r].body.password = "p" /\ req[r].body.confirmPassword = "q"

\* C6: in every committed store state the password column of every surveyors row is
\* a bcrypt hash, never the plaintext, and it verifies the plaintext most recently
\* accepted for that user (at registration or at a successful password change).
C6_StoredPasswordIsHash ==
    \A row \in db.surveyors :
        /\ row.password.kind = "bcrypt"
        /\ row.password.plain = accepted[row.id]
        /\ compare(accepted[row.id], row.password)

\* a password change was accepted and the row now verifies the new password only
C6_Witness ==
    \E r \in Req :
        /\ req[r].pc = "done" /\ req[r].route = "changeUserPassword" /\ req[r].status = 200
        /\ req[r].body.newPassword # req[r].body.password
        /\ \E row \in db.surveyors : /\ row.id = req[r].pathId
                                      /\ compare(req[r].body.newPassword, row.password)
                                      /\ ~compare(req[r].body.password, row.password)

\* C7: loginUser (no store failure) answers 200 exactly when a surveyors row has the
\* given email and its stored hash verifies the given password, and 401 otherwise;
\* the token of a 200 carries {userId, email} of that row, and authenticateToken
\* sets req.user to the payload of the issued token it was given.
C7_LoginAndToken ==
    \A r \in Req :
        LET q == req[r]
            match == {row \in db.surveyors : /\ row.email = q.body.email
                                             /\ row.password.kind = "bcrypt"
                                             /\ row.password.plain = q.body.password}
        IN
        /\ (q.route = "loginUser" /\ q.pc = "done" /\ ~q.fault /\ validateLogin(q.body)) =>
              /\ q.status = 200 <=> match # {}
              /\ q.status # 200 => q.status = 401
              /\ q.status = 200 =>
                    \E row \in match :
                        /\ q.token = [userId |-> row.id, email |-> row.email, state |-> "valid"]
                        /\ [userId |-> row.id, email |-> row.email] \in issued
        /\ (q.route \in OwnerRoutes /\ q.user.id # 0) =>
              /\ q.user = [id |-> q.token.userId, email |-> q.token.email]
              /\ [userId |-> q.user.id, email |-> q.user.email] \in issued

C7_Witness ==
    \E r \in Req :
        /\ req[r].pc = "done" /\ req[r].route = "loginUser" /\ req[r].status = 200
        /\ req[r].token.userId = 1 /\ req[r].token.email = req[r].body.email

\* C8: on every owner-only route a request with a valid token of user A and a
\* well-formed path id B # A (and a body its validation accepts) never enters the handler (no connection of its own, no
\* transaction, no statement); when A exists and the store does not fail it is
\* answered 403, whether or not B exists.  A handler runs only with req.user.id equal
\* to the path id, and checkResourceOwnership answers 403 when req.user is absent.
C8_OwnerOnly ==
    /\ \A r \in Req :
          LET q == req[r] IN
          /\ (q.route \in OwnerRoutes /\ q.token.state = "valid" /\ q.pathId >= 1
                 /\ q.token.userId # q.pathId) =>
                /\ q.pc \in {"auth_conn", "auth_select", "done"}
                /\ ~q.conn /\ ~q.begun /\ q.acq <= 1
                /\ q.wdel = EmptyRows /\ q.wins = EmptyRows
                /\ (q.pc = "done" /\ ~q.fault /\ validateBody(q.route, q.body)
                      /\ \E row \in db.surveyors : row.id = q.token.userId) =>
                      (q.status = 403 /\ q.msg = "ACCESS_DENIED")
          /\ (q.route \in OwnerRoutes /\ (q.conn \/ q.pc \in HandlerPcs)) => q.user.id = q.pathId
    /\ \A route \in OwnerRoutes, p \in Ids :
          checkResourceOwnership([Idle EXCEPT !.route = route, !.pathId = p]).status = 403

\* user 1 asks for the resource of user 2, who does not exist
C8_Witness ==
    \E r \in Req :
        /\ req[r].pc = "done" /\ req[r].route = "deleteUser" /\ req[r].status = 403
        /\ req[r].token.userId = 1 /\ req[r].pathId = 2
        /\ ~\E row \in db.surveyors : row.id = 2

\* C9: for page >= 1 and limit >= 1 paginate queries the data with LIMIT limit
\* OFFSET (page-1)*limit and returns totalPages = the least n with n*limit >= total,
\* hasNext = (page < totalPages), hasPrev = (page > 1); page 2, limit 10 over 25 rows
\* gives 10 rows, 3 pages, hasNext and hasPrev.
C9_Paginate ==
    pg.pc = "done" =>
        /\ pg.sqlLimit = pg.limit
        /\ pg.sqlOffset = (pg.page - 1) * pg.limit
        /\ pg.totalPages * pg.limit >= pg.total
        /\ (pg.totalPages - 1) * pg.limit < pg.total
        /\ pg.hasNext = (pg.page < pg.totalPages)
        /\ pg.hasPrev = (pg.page > 1)
        /\ (pg.page = 2 /\ pg.limit = 10 /\ pg.total = 25) =>
              (pg.rows = 10 /\ pg.totalPages = 3 /\ pg.hasNext /\ pg.hasPrev)

C9_Witness ==
    /\ pg.pc = "done" /\ pg.page = 2 /\ pg.limit = 10 /\ pg.total = 25
    /\ pg.rows = 10 /\ pg.totalPages = 3

\* C10 as stated: a request takes exactly one connection in its whole lifetime and
\* never holds or has requested more than one.
C10_OneConnectionPerRequest ==
    \A r \in Req : req[r].acq <= 1 /\ req[r].peak <= 1

\* C10 as amended: a request takes one connection per stage that touches the store
\* (authenticateToken, then the handler), so at most two, each released once; the
\* handler's connection is requested while authenticateToken still holds its own,
\* so an owner-only request whose handler is entered has two connections held or
\* requested at that moment, and no request ever has more than two.
C10_OneConnectionPerStage ==
    \A r \in Req :
        LET q == req[r] IN
        /\ q.acq <= 2 /\ q.peak <= 2 /\ q.rel <= q.acq
        /\ q.pc = "done" => q.rel = q.acq
        /\ q.route \notin OwnerRoutes => (q.acq <= 1 /\ q.peak <= 1)
        /\ (q.route \in OwnerRoutes /\ q.pc \in HandlerPcs) => q.peak = 2
        /\ (q.route \in OwnerRoutes /\ q.conn) => q.acq = 2

C10_Witness ==
    \E r \in Req :
        /\ req[r].pc = "done" /\ req[r].route = "updateUserInfo" /\ req[r].status = 200
        /\ req[r].acq = 2 /\ req[r].rel = 2 /\ req[r].peak = 2

C12_NoDanglingAssociation ==
    /\ \A x \in db.services : /\ \E row \in db.surveyors : row.id = x[1]
                              /\ \E s \in SubcategoryTable : s.id = x[2]
    /\ \A x \in db.counties : /\ \E row \in db.surveyors : row.id = x[1]
                              /\ \E c \in CountyTable : c.id = x[2]
    /\ \A r \in Req :
          (req[r].pc = "done" /\ req[r].route = "deleteUser" /\ req[r].status = 200) =>
              /\ ~\E row \in db.surveyors : row.id = req[r].pathId
              /\ ~\E x \in db.services \cup db.counties : x[1] = req[r].pathId

\* a replacement of the services of u raced with the deletion of u: the deletion
\* committed first and the INSERT of the replacement was refused by the store
C12_Witness ==
    \E r \in Req :
        /\ req[r].pc = "done" /\ req[r].route = "updateUserServices"
        /\ req[r].failedAt = "ra_insert" /\ ~req[r].fault /\ req[r].status = 500
        /\ ~\E row \in db.surveyors : row.id = req[r].pathId
        /\ ~\E x \in db.services : x[1] = req[r].pathId

\* C13: authenticateToken answers a token with a bad signature or format with 403
\* INVALID_TOKEN, an expired token with 401 TOKEN_EXPIRED and a missing token with
\* 401 MISSING_TOKEN; in these cases next is not called (no handler step), req.user
\* is not set and no pooled connection is acquired or requested.
C13_TokenFailures ==
    \A r \in Req :
        LET q == req[r] IN
        (q.route \in OwnerRoutes /\ validateUserId(q.pathId) /\ validateBody(q.route, q.body)
            /\ q.token.state # "valid") =>
            /\ q.pc = "done"
            /\ q.token.state = "bad" => (q.status = 403 /\ q.msg = "INVALID_TOKEN")
            /\ q.token.state = "expired" => (q.status = 401 /\ q.msg = "TOKEN_EXPIRED")
            /\ q.token.state = "none" => (q.status = 401 /\ q.msg = "MISSING_TOKEN")
            /\ q.user.id = 0
            /\ q.acq = 0 /\ q.peak = 0 /\ ~q.conn /\ ~q.begun

\* the once valid token of user 1, expired, and a token with a bad signature
C13_Witness ==
    /\ \E r \in Req : /\ req[r].pc = "done" /\ req[r].route = "deleteUser"
                       /\ req[r].token.state = "expired" /\ req[r].token.userId = 1
                       /\ req[r].pathId = 1 /\ req[r].status = 401
    /\ \E row \in db.surveyors : row.id = 1

\* C14 as stated: a DELETE for the own account through the whole chain, with no
\* other request in flight and no store failure, is answered 200 when the account
\* exists (its row is deleted) and 404 when it was deleted before.
C14_SecondDeleteIs404 ==
    \A r \in Req :
        LET q == req[r] IN
        (q.pc = "done" /\ q.route = "deleteUser" /\ validateUserId(q.pathId)
            /\ q.token.state = "valid" /\ q.token.userId = q.pathId /\ q.alone /\ ~q.fault) =>
            /\ q.status \in {200, 404}
            /\ q.status = 200 <=> q.wdel.surveyors # {}

\* C14 as amended: the first DELETE of an existing account is answered 200; a DELETE
\* for an account deleted before, sent with the token that was valid for it, is
\* answered 401 USER_NOT_FOUND by authenticateToken and deleteUser is not entered.
\* (404 is the answer only when the row vanishes between the lookup of
\* authenticateToken and the DELETE of the handler, so never without another request
\* in flight.)
C14_SecondDeleteIs401 ==
    \A r \in Req :
        LET q == req[r] IN
        (q.pc = "done" /\ q.route = "deleteUser" /\ validateUserId(q.pathId)
            /\ q.token.state = "valid" /\ q.token.userId = q.pathId /\ ~q.fault) =>
            /\ q.status = 200 <=> q.wdel.surveyors # {}
            /\ q.alone => q.status \in {200, 401}
            /\ q.status \in {200, 401, 404} => ~\E row \in db.surveyors : row.id = q.pathId
            /\ q.status = 401 => /\ q.msg = "USER_NOT_FOUND"
                                 /\ q.acq = 1 /\ q.rel = 1 /\ ~q.begun /\ q.wdel = EmptyRows
            /\ q.status = 404 => (q.begun /\ q.acq = 2 /\ ~q.alone)

\* user 1 deleted the account and sends the same request again
C14_Witness ==
    \E r \in Req :
        /\ req[r].pc = "done" /\ req[r].route = "deleteUser" /\ req[r].pathId = 1
        /\ req[r].token = [userId |-> 1, email |-> "a", state |-> "valid"]
        /\ req[r].alone /\ started = 2
        /\ req[r].status = 401 /\ req[r].msg = "USER_NOT_FOUND"
        /\ db.surveyors = {}

\* C15: changeUserPassword answers 401 when the current password given does not
\* verify against the stored hash; then it has written nothing, its transaction is
\* rolled back and the stored password is as before.  It issues the UPDATE and
\* commits only after the current password verified, and then answers 200 with the
\* hash of the new password stored.
C15_PasswordChangeVerifies ==
    \A r \in Req :
        LET q == req[r] IN
        (q.pc = "done" /\ q.route = "changeUserPassword" /\ q.begun) =>
            /\ q.status = 401 =>
                  /\ q.msg = "Incorrect current password."
                  /\ q.wdel = EmptyRows /\ q.wins = EmptyRows /\ ~q.txn
                  /\ q.alone => \E row \in db.surveyors :
                                    /\ row.id = q.pathId
                                    /\ row.password.plain # q.body.password
                                    /\ row.password.plain = accepted[row.id]
            /\ (q.wins.surveyors # {} /\ q.alone) =>
                  \E old \in q.wdel.surveyors :
                      old.id = q.pathId /\ old.password.kind = "bcrypt" /\ old.password.plain = q.body.password
            /\ q.status = 200 =>
                  \E new \in q.wins.surveyors \cap db.surveyors :
                      /\ new.id = q.pathId
                      /\ new.password.kind = "bcrypt" /\ new.password.plain = q.body.newPassword
            /\ (q.alone /\ ~q.fault) => q.status \in {200, 401}

\* user 1, whose password is "p", gives "q" as the current password
C15_Witness ==
    \E r \in Req :
        /\ req[r].pc = "done" /\ req[r].route = "changeUserPassword" /\ req[r].pathId = 1
        /\ req[r].status = 401 /\ req[r].msg = "Incorrect current password."
        /\ req[r].body.password = "q" /\ req[r].body.newPassword = "q"
        /\ \E row \in db.surveyors : row.id = 1 /\ row.password = [kind |-> "bcrypt", plain |-> "p", salt |-> "s1"]

\* C16: after a 201 of registerUser the county associations of the new user are
\* exactly the rows (newUserId, c.id) for the counties c of the reference table named
\* Boulder, Broomfield or Gilpin, committed together with the user row; when the
\* reference table has none of these names the registration is still answered 201
\* and the new user has no county association.
C16_DefaultCounties ==
    \A r \in Req :
        LET q == req[r] IN
        (q.pc = "done" /\ q.route = "registerUser" /\ q.status = 201) =>
            /\ \E row \in db.surveyors : row.id = q.surveyorId /\ row.email = q.body.email
            /\ {x \in db.counties : x[1] = q.surveyorId}
                  = {<<q.surveyorId, c.id>> : c \in {y \in countyTable : y.name \in {"Boulder", "Broomfield", "Gilpin"}}}
            /\ q.wins.counties = {x \in db.counties : x[1] = q.surveyorId}
            /\ (~\E c \in countyTable : c.name \in {"Boulder", "Broomfield", "Gilpin"}) =>
                  ~\E x \in db.counties : x[1] = q.surveyorId

\* a registration against a counties table that has none of the default counties
C16_Witness ==
    \E r \in Req :
        /\ req[r].pc = "done" /\ req[r].route = "registerUser" /\ req[r].status = 201
        /\ countyTable = {[id |-> 2, name |-> "Adams"]}
        /\ \E row \in db.surveyors : row.id = req[r].surveyorId
        /\ db.counties = {}

\* C17: every profile field is optional on PUT /api/user-profile/info/:id: for an
\* existing user (no other request in flight, no store failure) an update that
\* supplies a subset of the fields is answered 200, the columns of the supplied
\* fields take the given values and the columns of the other fields keep their
\* values; the answer is 404, with nothing committed, when the UPDATE affects no row.
C17_PartialUpdateKeepsColumns ==
    \A r \in Req :
        LET q == req[r] IN
        (q.pc = "done" /\ q.route = "updateUserInfo" /\ q.begun /\ q.alone /\ ~q.fault) =>
            /\ q.status = 200
            /\ \E old \in q.wdel.surveyors : \E new \in q.wins.surveyors \cap db.surveyors :
                  /\ old.id = q.pathId /\ new.id = q.pathId
                  /\ new.email = IF "email" \in q.body.fields THEN q.body.email ELSE old.email
                  /\ new.phone = IF "phone" \in q.body.fields THEN q.body.phone ELSE old.phone
                  /\ new.password = old.password

\* C18: when a store call inside a handler fails with a store-level error code the
\* client receives the status (and the code) the centralized translator assigns to
\* it: ER_DUP_ENTRY 409, ER_NO_REFERENCED_ROW_2 400, ECONNREFUSED and
\* ER_ACCESS_DENIED_ERROR 503.
C18_StoreErrorsTranslated ==
    \A r \in Req :
        LET q == req[r] IN
        (q.pc = "done" /\ q.route \notin ServiceCalls
            /\ q.err.code \in {"ER_DUP_ENTRY", "ER_NO_REFERENCED_ROW_2", "ECONNREFUSED", "ER_ACCESS_DENIED_ERROR"}) =>
            /\ q.status = errorHandler(q.err).status
            /\ q.msg = errorHandler(q.err).code

\* C19: every failure is surfaced: when a step of a handler or of
\* executeTransaction has failed (getConnection, beginTransaction, a statement, the
\* commit or the rollback itself), then by the time the operation has ended the
\* transaction is closed, the connection is released and the caller has its one
\* error outcome: an error response for a handler, the original error thrown for
\* executeTransaction.
C19_EveryFailureSurfaced ==
    \A r \in Req :
        LET q == req[r] IN
        (q.pc = "done" /\ q.failedAt # "none") =>
            /\ q.rel = q.acq /\ ~q.txn
            /\ q.route \in ServiceCalls => q.msg = "thrown"
            /\ q.route \notin ServiceCalls => q.status >= 400

\* C20 as stated: every call of a record access helper asks the pool for exactly
\* one connection and has released what it acquired when it ends; only batchInsert
\* with an empty or missing record set asks for none and returns
\* {affectedRows: 0, insertId: null}.
C20_OneConnectionPerCall ==
    call.pc = "done" =>
        /\ call.rel = call.acq
        /\ call.asked = IF call.op = "batchInsert" /\ call.records <= 0 THEN 0 ELSE 1
        /\ (call.op = "batchInsert" /\ call.records <= 0) =>
              (call.queries = 0 /\ call.outcome = "affectedRows 0, insertId null")

\* C20 as amended: every helper call acquires one connection per query it issues
\* and releases it, on every exit path, before it does anything else: findById,
\* findByField, insert, updateById, deleteById, existsByField and batchInsert issue
\* one query; paginate issues two (count, then data) and so acquires and releases two
\* connections one after the other, never holding more than one.  The only call that
\* issues no query is batchInsert with an empty or missing record set.
C20_OneConnectionPerQuery ==
    /\ call.acq - call.rel \in {0, 1} /\ call.peak <= 1
    /\ call.acq <= call.asked /\ call.queries <= call.acq
    /\ call.asked <= (IF call.op = "paginate" THEN 2 ELSE 1)
    /\ call.pc = "done" =>
          /\ call.rel = call.acq
          /\ (call.op = "batchInsert" /\ call.records <= 0) =>
                (call.asked = 0 /\ call.queries = 0 /\ call.outcome = "affectedRows 0, insertId null")
          /\ ~(call.op = "batchInsert" /\ call.records <= 0) => call.asked >= 1
          /\ call.outcome # "thrown" /\ ~(call.op = "batchInsert" /\ call.records <= 0) =>
                (call.asked = IF call.op = "paginate" THEN 2 ELSE 1) /\ call.acq = call.asked /\ call.queries = call.acq

\* paginate returned: two connections were acquired and released
C20_Witness ==
    /\ call.pc = "done" /\ call.op = "paginate" /\ call.outcome = "page"
    /\ call.asked = 2 /\ call.acq = 2 /\ call.rel = 2 /\ call.peak = 1

\* the request passed validation, token verification with the user lookup, and the
\* ownership check
C21_Passed(q) ==
    /\ validateUserId(q.pathId) /\ validateBody(q.route, q.body)
    /\ verifyToken(q.token) = "ok"
    /\ q.user = [id |-> q.token.userId, email |-> q.token.email]
    /\ q.user.id = q.pathId
    /\ q.acq >= 1

\* the handler of a user-profile request has started
C21_InHandler(q) ==
    q.pc \in HandlerPcs \/ q.begun \/ q.acq >= 2 \/ q.wins # EmptyRows \/ q.wdel # EmptyRows

\* the chain answered before the handler
C21_RejectedByChain(q) ==
    /\ q.pc = "done"
    /\ \/ q.status = 400 /\ q.msg = "Validation failed"
       \/ q.msg \in {"MISSING_TOKEN", "INVALID_TOKEN", "TOKEN_EXPIRED", "USER_NOT_FOUND", "ACCESS_DENIED"}

C21_Gate ==
    \A r \in Req :
        LET q == req[r] IN
        q.route \in OwnerRoutes =>
            /\ C21_InHandler(q) => C21_Passed(q)
            /\ C21_RejectedByChain(q) =>
                  /\ ~C21_InHandler(q) /\ ~q.txn
                  /\ q.acq = (IF q.msg \in {"USER_NOT_FOUND", "ACCESS_DENIED"} THEN 1 ELSE 0)
                  /\ q.rel = q.acq
            /\ ~validateUserId(q.pathId) \/ ~validateBody(q.route, q.body) =>
                  (q.pc = "done" /\ q.status = 400 /\ q.msg = "Validation failed" /\ q.user.id = 0)
            /\ (q.pc = "done" /\ q.user.id # 0 /\ q.user.id # q.pathId) =>
                  (q.status = 403 /\ q.msg = "ACCESS_DENIED")

C21_Order ==
    \A r \in Req :
        /\ (req'[r].route \in OwnerRoutes /\ C21_InHandler(req'[r]) /\ ~C21_InHandler(req[r])) =>
              /\ req[r].pc = "auth_select" /\ req[r].route = req'[r].route
              /\ req[r].user.id = 0
              /\ verifyToken(req[r].token) = "ok"
              /\ tokenUsers(req[r]) # {}
              /\ req[r].token.userId = req[r].pathId
        /\ (req[r].route \in OwnerRoutes /\ req[r].pc = "auth_select" /\ req'[r].pc = "done"
                /\ req'[r].msg = "ACCESS_DENIED") =>
              (tokenUsers(req[r]) # {} /\ req'[r].user.id = req[r].token.userId)
        /\ (req[r].route \in OwnerRoutes /\ req'[r] # req[r] /\ ~C21_InHandler(req[r])) => db' = db
        /\ (req[r].route \in OwnerRoutes /\ req'[r].route = req[r].route /\ C21_RejectedByChain(req'[r])
                /\ ~C21_RejectedByChain(req[r])) => db' = db

\* C21: on every /api/user-profile route the handler (its connection, its
\* transaction, its writes) starts only in the step in which authenticateToken, for a
\* verified token, has found the user and checkResourceOwnership has then passed; a
\* request the validation, the token verification or the ownership check rejects
\* never enters the handler and changes no row of the store.
C21_HandlerAfterChain == [](C21_Gate) /\ [][C21_Order]_vars

\* one request was refused by the ownership check after its user was found, while
\* another one, which passed the chain, is inside its transaction
C21_Witness ==
    \E r, o \in Req :
        /\ req[r].pc = "done" /\ req[r].msg = "ACCESS_DENIED" /\ req[r].acq = 1 /\ req[r].user.id # 0
        /\ req[o].route \in OwnerRoutes /\ req[o].txn /\ req[o].wdel # EmptyRows

\* C22: no request holds a pooled connection at a suspension point that is not a
\* store call: while loginUser, registerUser or changeUserPassword wait for bcrypt
\* (genSalt, hash, compare) they hold no connection and have no transaction open.
C22_NoConnectionAcrossHashing ==
    \A r \in Req :
        req[r].pc \in HashPcs => (req[r].acq = req[r].rel /\ ~req[r].conn /\ ~req[r].txn)

\* the id set a replace-association call resolves its names to
C23_Resolved(q) == IF q.body.hasNames THEN Resolve(q.route, q.body.names) ELSE {}

C23_CommitReplaces ==
    \A r \in Req :
        (req[r].route \in {"updateUserServices", "updateUserServiceAreas"}
            /\ req[r].pc = "ra_commit" /\ req'[r].pc = "done" /\ req'[r].status = 200) =>
            /\ {x \in db'[AssocTable(req[r].route)] : x[1] = req[r].pathId}
                  = {<<req[r].pathId, i>> : i \in C23_Resolved(req[r])}
            /\ \A u \in Ids \ {req[r].pathId} :
                  {x \in db'[AssocTable(req[r].route)] : x[1] = u}
                    = {x \in db[AssocTable(req[r].route)] : x[1] = u}

\* C23: the code takes no lock of its own for two replace-association calls for the
\* same user (both may be inside their transactions at once); whenever one of them
\* commits, the association rows of the user are exactly the id set that call
\* resolved, so after both have committed the rows are those of the call that
\* committed last, never a mixture or a union of the two sets.
C23_LastCommitWins == [][C23_CommitReplaces]_vars

\* a call that ran while another call for the same user was in flight removed the
\* row that other call had committed (county 2, which user 1 did not have at the
\* start) and committed its own, empty, set
C23_Witness ==
    \E r \in Req :
        /\ req[r].pc = "done" /\ req[r].route = "updateUserServiceAreas" /\ req[r].status = 200
        /\ req[r].pathId = 1 /\ ~req[r].alone
        /\ req[r].wdel.counties = {<<1, 2>>}
        /\ C23_Resolved(req[r]) = {}
        /\ {x \in db.counties : x[1] = 1} = {}

\* C24: when its statement has been executed, insert returns the result header of
\* the store with the generated id, and updateById / deleteById return the result
\* header with the number of affected rows (0 when no row has the id).
C24_WriteHelpersReturnHeader ==
    (call.pc = "done" /\ call.queries = 1 /\ call.op \in {"insert", "updateById", "deleteById"}) =>
        /\ call.result.kind = "header"
        /\ call.op = "insert" => call.result.insertId = nextId
        /\ call.op \in {"updateById", "deleteById"} =>
              call.result.affectedRows = (IF call.present THEN 1 ELSE 0)

\* C25: an instance of one of the application's error classes passed to
\* errorHandler is answered with the status and the code of its class
\* (ValidationError 400 VALIDATION_ERROR, UnauthorizedError 401 UNAUTHORIZED,
\* ForbiddenError 403 FORBIDDEN, NotFoundError 404 NOT_FOUND, ConflictError 409
\* CONFLICT).
C25_ErrorClassesTranslated ==
    (eh.pc = "responded" /\ eh.err \in ErrorClasses) =>
        (eh.status = eh.err.statusCode /\ eh.code = eh.err.code)

\* the surveyors row of id u is in the committed store
C26_Present(u) == \E row \in db.surveyors : row.id = u

C26_Lookup ==
    \A r \in Req :
        (req[r].route \in OwnerRoutes /\ req[r].pc = "auth_select" /\ req'[r].pc # "auth_select") =>
            /\ ~C26_Present(req[r].token.userId) =>
                  /\ req'[r].pc = "done" /\ req'[r].user.id = 0
                  /\ ~C21_InHandler(req'[r])
                  /\ req'[r].acq = 1 /\ req'[r].rel = 1
                  /\ ~req'[r].fault => (req'[r].status = 401 /\ req'[r].msg = "USER_NOT_FOUND")
                  /\ db' = db
            /\ req'[r].user.id # 0 =>
                  (req'[r].user.id = req[r].token.userId /\ C26_Present(req[r].token.userId))

C26_Authenticated ==
    \A r \in Req :
        /\ (req[r].route \in OwnerRoutes /\ req[r].user.id = 0) => ~C21_InHandler(req[r])
        /\ (req[r].pc = "done" /\ req[r].route = "deleteUser" /\ req[r].status = 200) =>
              ~C26_Present(req[r].pathId)

\* C26: after deleteUser has committed for user u (the row is gone when it answers
\* 200), a request that reaches authenticateToken with a token issued to u, while no
\* surveyors row has id u, is answered 401 USER_NOT_FOUND (500 AUTH_ERROR when the
\* lookup itself fails) with its connection released and no handler entered; req.user
\* is set, and a handler entered, only in a step in which the row of the token's user
\* is in the committed store.
C26_DeletedUserTokenRejected == [](C26_Authenticated) /\ [][C26_Lookup]_vars

\* user 1 (registered and logged in before) is deleted and the token asks for the
\* profile
C26_Witness ==
    \E r \in Req :
        /\ req[r].pc = "done" /\ req[r].route = "getUserProfile"
        /\ req[r].token.state = "valid" /\ req[r].token.userId = 1 /\ req[r].pathId = 1
        /\ generateToken(1, req[r].token.email) \in issued
        /\ req[r].status = 401 /\ req[r].msg = "USER_NOT_FOUND"
        /\ nextId > 1 /\ ~C26_Present(1)

====
